---- MODULE Spec2Model ----
(***************************************************************************)
(* Model of the two Gaudi tutorial notebooks:                              *)
(*   TensorFlow/Using HPU/hpu.ipynb             device placement           *)
(*   TensorFlow/Mixed Precision/mixed_precision.ipynb   dtype policies     *)
(* Each notebook statement is one action.  The behaviour of the framework  *)
(* calls is taken from the notebooks' narration and captured cell output.  *)
(***************************************************************************)
EXTENDS Integers, Sequences, FiniteSets, TLC

\* Bounds of the model.
MaxHpus == 1
MaxDepth == 2
MaxLines == 1
MaxWeight == 2
MaxFits == 2
MaxVal == 15
MaxApply == 2

VARIABLES
    hw_hpus,               \* HPUs installed in the machine
    habana_loaded,         \* load_habana_module() has been called
    log_device_placement,  \* tf.debugging.set_log_device_placement flag
    device_stack,          \* the runtime's stack of tf.device scopes
    blocks_open,           \* `with tf.device` blocks entered and not yet left
    block_exited,          \* some `with tf.device` block has been left
    tensors,               \* device of the Python variables a, b, c
    last,                  \* the statement executed last and what the runtime did
    stdout,                \* "Executing op ... in device ..." lines printed
    printed,               \* the placement lines the last statement wrote
    num_hpus_available,    \* the count printed as "Num HPUs Available" (-1: none)
    policy,                \* the Python variable `policy`
    global_policy,         \* the Keras global dtype policy
    policy_set,            \* set_global_policy has been executed
    num_units,             \* the Python variable `num_units` (0: not assigned)
    layer,                 \* the layer constructed last
    x,                     \* dtype of the Python variable `x`
    outputs,               \* dtype of the Python variable `outputs`
    mlast,                 \* the mixed_precision.ipynb statement executed last
    pc,                    \* the next statement when the notebook is run top to bottom
    weights,               \* the model's weights (-1: no model)
    untrained,             \* the weights the model was created with
    initial_weights,       \* the Python variable `initial_weights` (-1: not assigned)
    restored,              \* the weights were loaded back and not trained since
    n_train,               \* samples in x_train (0: not loaded)
    n_test,                \* samples in x_test (0: not loaded)
    train,                 \* the samples fit trains on, [lo, hi)
    val,                   \* the samples fit validates on, [lo, hi)
    used_train,            \* the samples the last training epoch went through
    used_val,              \* the samples the last validation pass went through
    epoch,                 \* the epoch of the running fit call
    fits,                  \* fit calls started
    iterations,            \* the optimizer's state: the training steps it has taken
    setup,                 \* the statements executed before the first fit call
    run,                   \* what the running execution of the fit cell has done
    tensor,                \* an output tensor: its dtype and its value
    orig,                  \* the tensor before it was cast to float32
    applied                \* float32 linear Activation layers applied to it

\* State of hpu.ipynb and of mixed_precision.ipynb; the machine is shared.
hpu_vars == <<log_device_placement, device_stack, blocks_open, block_exited,
              tensors, last, stdout, printed, num_hpus_available>>
mp_vars == <<policy, global_policy, policy_set, num_units, layer, x, outputs, mlast>>
train_vars == <<pc, weights, untrained, initial_weights, restored, n_train, n_test,
                train, val, used_train, used_val, epoch, fits, iterations, setup,
                run>>
cast_vars == <<tensor, orig, applied>>
vars == <<hw_hpus, habana_loaded, hpu_vars, mp_vars, train_vars, cast_vars>>

-----------------------------------------------------------------------------
(* Devices *)

NoDevice == [type |-> "none", id |-> 0]
CPU0 == [type |-> "CPU", id |-> 0]
HPU0 == [type |-> "HPU", id |-> 0]

\* Mutant of list_physical_devices.
list_physical_devices_unfiltered(device_type) ==
    {CPU0} \cup (IF habana_loaded
                 THEN {[type |-> "HPU", id |-> i] : i \in 0..(hw_hpus - 1)}
                 ELSE {})

\* tf.config.list_physical_devices(device_type)
list_physical_devices(device_type) ==
    IF device_type = "CPU" THEN {CPU0}
    ELSE IF device_type = "HPU" /\ habana_loaded
         THEN {[type |-> "HPU", id |-> i] : i \in 0..(hw_hpus - 1)}
         ELSE {}

VisibleDevices == list_physical_devices("CPU") \cup list_physical_devices("HPU")

\* The device types an operation has an implementation (kernel) for.
\* MatMul and _EagerConst run on both; RemoteCall could not be registered on HPU.
OpKernels(op) ==
    CASE op = "MatMul" -> {"CPU", "HPU"}
      [] op = "_EagerConst" -> {"CPU", "HPU"}
      [] op = "RemoteCall" -> {"CPU"}

HasKernel(op, type) == type \in OpKernels(op)

\* Mutants of DefaultDevice.
DefaultDevice_cpu_first(op, devs) == CPU0

DefaultDevice_no_fallback(op, devs) ==
    IF HPU0 \in devs THEN HPU0 ELSE CPU0

\* The device chosen when none was requested: the HPU is prioritized for an
\* operation with CPU and HPU implementations; an operation with no HPU
\* implementation falls back to the CPU.
DefaultDevice(op, devs) ==
    IF HPU0 \in devs /\ HasKernel(op, "HPU") THEN HPU0 ELSE CPU0

\* Mutant of Place.
Place_ignore_request(op, requested, devs) == DefaultDevice(op, devs)

\* The device an operation is assigned to.  requested is the innermost
\* tf.device scope, or NoDevice.
Place(op, requested, devs) ==
    IF requested # NoDevice /\ HasKernel(op, requested.type)
    THEN requested
    ELSE DefaultDevice(op, devs)

\* The innermost device scope in effect.
Requested == IF device_stack = <<>> THEN NoDevice ELSE device_stack[Len(device_stack)]

\* Mutant of PopScope.
PopScope_keep(stack) == stack

\* Leaving `with tf.device(...)` removes the innermost scope.
PopScope(stack) == SubSeq(stack, 1, Len(stack) - 1)

-----------------------------------------------------------------------------
(* hpu.ipynb *)

TensorNames == {"a", "b", "c"}

NoOperands == [a |-> NoDevice, b |-> NoDevice]

Statement(stmt, op, device, copied, operands) ==
    [stmt |-> stmt, op |-> op, requested |-> Requested, device |-> device,
     copied |-> copied, operands |-> operands]

\* The line printed for an executed operation when placement logging is on.
Logged(op, device) ==
    IF log_device_placement THEN Append(stdout, [op |-> op, device |-> device])
    ELSE stdout

CanLog == log_device_placement => Len(stdout) < MaxLines

\* What an executed operation writes when placement logging is on: its
\* "Executing op" line on stdout.
ExecLines(op, device) ==
    IF log_device_placement
    THEN {[stream |-> "stdout", what |-> op, device |-> device]}
    ELSE {}

\* What the placer writes on stderr for the MatMul function when placement
\* logging is on: its arguments, the MatMul node and the return value.
PlacerLines(a, b, device) ==
    IF log_device_placement
    THEN {[stream |-> "stderr", what |-> "a_0", device |-> a],
          [stream |-> "stderr", what |-> "b_1", device |-> b],
          [stream |-> "stderr", what |-> "MatMul", device |-> device],
          [stream |-> "stderr", what |-> "product_0_RetVal", device |-> device]}
    ELSE {}

InitHpu ==
    /\ hw_hpus \in 0..MaxHpus
    /\ habana_loaded = FALSE
    /\ log_device_placement = FALSE
    /\ device_stack = <<>>
    /\ blocks_open = 0
    /\ block_exited = FALSE
    /\ tensors = [t \in TensorNames |-> NoDevice]
    /\ last = Statement("import", "none", NoDevice, {}, NoOperands)
    /\ stdout = <<>>
    /\ printed = {}
    /\ num_hpus_available = -1

\* load_habana_module()
load_habana_module ==
    /\ habana_loaded' = TRUE
    /\ last' = Statement("load_habana_module", "none", NoDevice, {}, NoOperands)
    /\ printed' = {}
    /\ UNCHANGED <<hw_hpus, log_device_placement, device_stack, blocks_open,
                   block_exited, tensors, stdout>>
    /\ UNCHANGED <<num_hpus_available, mp_vars, train_vars, cast_vars>>

\* tf.debugging.set_log_device_placement(True)
set_log_device_placement ==
    /\ log_device_placement' = TRUE
    /\ last' = Statement("set_log_device_placement", "none", NoDevice, {}, NoOperands)
    /\ printed' = {}
    /\ UNCHANGED <<hw_hpus, habana_loaded, device_stack, blocks_open,
                   block_exited, tensors, stdout>>
    /\ UNCHANGED <<num_hpus_available, mp_vars, train_vars, cast_vars>>

\* with tf.device(d):     (entering the block)
device_enter(d) ==
    /\ Len(device_stack) < MaxDepth
    /\ d \in VisibleDevices
    /\ device_stack' = Append(device_stack, d)
    /\ blocks_open' = blocks_open + 1
    /\ last' = [Statement("with tf.device", "none", NoDevice, {}, NoOperands)
                   EXCEPT !.requested = d]
    /\ printed' = {}
    /\ UNCHANGED <<hw_hpus, habana_loaded, log_device_placement, block_exited,
                   tensors, stdout>>
    /\ UNCHANGED <<num_hpus_available, mp_vars, train_vars, cast_vars>>

\* the end of a `with tf.device(...)` block
device_exit ==
    /\ blocks_open > 0
    /\ device_stack' = PopScope(device_stack)
    /\ blocks_open' = blocks_open - 1
    /\ block_exited' = TRUE
    /\ last' = [Statement("end with", "none", NoDevice, {}, NoOperands)
                   EXCEPT !.requested =
                       IF device_stack' = <<>> THEN NoDevice
                       ELSE device_stack'[Len(device_stack')]]
    /\ printed' = {}
    /\ UNCHANGED <<hw_hpus, habana_loaded, log_device_placement, tensors, stdout>>
    /\ UNCHANGED <<num_hpus_available, mp_vars, train_vars, cast_vars>>

\* a = tf.constant(...) / b = tf.constant(...)
\* A constant placed on the HPU is materialised by an _EagerConst op; a
\* constant placed on the CPU executes no op.
constant(name) ==
    LET dev == Place("_EagerConst", Requested, VisibleDevices)
        runs == dev.type # "CPU"
    IN  /\ runs => CanLog
        /\ tensors' = [tensors EXCEPT ![name] = dev]
        /\ last' = Statement("constant", IF runs THEN "_EagerConst" ELSE "none",
                             dev, {}, NoOperands)
        /\ stdout' = IF runs THEN Logged("_EagerConst", dev) ELSE stdout
        /\ printed' = IF runs THEN ExecLines("_EagerConst", dev) ELSE {}
        /\ UNCHANGED <<hw_hpus, habana_loaded, log_device_placement, device_stack,
                       blocks_open, block_exited>>
        /\ UNCHANGED <<num_hpus_available, mp_vars, train_vars, cast_vars>>

\* The operands of an operation keep their device; they are copied to the
\* operation's device when it differs.
OperandsAfter(t, dev) == t

\* c = tf.matmul(a, b)
matmul ==
    LET dev == Place("MatMul", Requested, VisibleDevices) IN
        /\ tensors["a"] # NoDevice
        /\ tensors["b"] # NoDevice
        /\ CanLog
        /\ tensors' = [OperandsAfter(tensors, dev) EXCEPT !["c"] = dev]
        /\ last' = Statement("matmul", "MatMul", dev,
                             {t \in {"a", "b"} : tensors[t] # dev},
                             [a |-> tensors["a"], b |-> tensors["b"]])
        /\ stdout' = Logged("MatMul", dev)
        /\ printed' = ExecLines("MatMul", dev)
                          \cup PlacerLines(tensors["a"], tensors["b"], dev)
        /\ UNCHANGED <<hw_hpus, habana_loaded, log_device_placement, device_stack,
                       blocks_open, block_exited>>
        /\ UNCHANGED <<num_hpus_available, mp_vars, train_vars, cast_vars>>

\* an operation that has no HPU implementation
no_hpu_op ==
    LET dev == Place("RemoteCall", Requested, VisibleDevices) IN
        /\ CanLog
        /\ last' = Statement("op", "RemoteCall", dev, {}, NoOperands)
        /\ stdout' = Logged("RemoteCall", dev)
        /\ printed' = ExecLines("RemoteCall", dev)
        /\ UNCHANGED <<hw_hpus, habana_loaded, log_device_placement, device_stack,
                       blocks_open, block_exited, tensors>>
        /\ UNCHANGED <<num_hpus_available, mp_vars, train_vars, cast_vars>>

\* print("Num HPUs Available: ", len(tf.config.list_physical_devices('HPU')))
print_num_hpus ==
    /\ num_hpus_available' = Cardinality(list_physical_devices("HPU"))
    /\ last' = Statement("print_num_hpus", "none", NoDevice, {}, NoOperands)
    /\ printed' = {}
    /\ UNCHANGED <<hw_hpus, habana_loaded, log_device_placement, device_stack,
                   blocks_open, block_exited, tensors, stdout>>
    /\ UNCHANGED <<mp_vars, train_vars, cast_vars>>

NextHpu ==
    \/ load_habana_module
    \/ print_num_hpus
    \/ set_log_device_placement
    \/ \E d \in {CPU0} \cup {[type |-> "HPU", id |-> i] : i \in 0..(MaxHpus - 1)} :
           device_enter(d)
    \/ device_exit
    \/ \E name \in {"a", "b"} : constant(name)
    \/ matmul
    \/ no_hpu_op

-----------------------------------------------------------------------------
(* mixed_precision.ipynb *)

UnitsHpu == 256
UnitsCpu == 64
UnitsOut == 10

NoPolicy == [name |-> "none", compute_dtype |-> "none", variable_dtype |-> "none"]

\* Mutant of Policy.
Policy_swapped(name) ==
    IF name = "mixed_bfloat16"
    THEN [name |-> name, compute_dtype |-> "float32", variable_dtype |-> "bfloat16"]
    ELSE [name |-> name, compute_dtype |-> name, variable_dtype |-> name]

\* mixed_precision.Policy(name): 'mixed_bfloat16' computes in bfloat16 and keeps
\* variables in float32; 'float32' computes and keeps variables in float32.
Policy(name) ==
    IF name = "mixed_bfloat16"
    THEN [name |-> name, compute_dtype |-> "bfloat16", variable_dtype |-> "float32"]
    ELSE [name |-> name, compute_dtype |-> name, variable_dtype |-> name]

\* A policy argument: absent, a string, or a Policy object.
NoArg == [form |-> "none", name |-> "none", policy |-> NoPolicy]
StrArg(name) == [form |-> "str", name |-> name, policy |-> NoPolicy]
PolicyArg(p) == [form |-> "policy", name |-> "none", policy |-> p]

\* Mutant of get_policy.
get_policy_unparsed(arg) ==
    IF arg.form = "str"
    THEN [name |-> arg.name, compute_dtype |-> arg.name, variable_dtype |-> arg.name]
    ELSE arg.policy

\* A string is converted to the policy of that name; a Policy object is itself.
get_policy(arg) ==
    IF arg.form = "str" THEN Policy(arg.name) ELSE arg.policy

\* Mutants of LayerPolicy.
LayerPolicy_default(dtype) ==
    IF dtype.form = "none" THEN Policy("float32") ELSE get_policy(dtype)

LayerPolicy_ignore_dtype(dtype) == global_policy

\* A layer uses the global policy unless a dtype argument is passed to its
\* constructor, which is converted to a policy.
LayerPolicy(dtype) ==
    IF dtype.form = "none" THEN global_policy ELSE get_policy(dtype)

\* Mutant of OutputDtype.
OutputDtype_nocast(pol, input) == input

\* A layer casts its inputs to its compute dtype, so its outputs have it.
OutputDtype(pol, input) == pol.compute_dtype

\* A Dense layer's variables have the policy's variable dtype; an Activation
\* layer has no variables.
KernelDtype(kind, pol) ==
    IF kind = "Dense" THEN pol.variable_dtype ELSE "none"

\* device_lib.list_local_devices(): every local device, the CPU included.
list_local_devices == VisibleDevices

NoLayer ==
    [kind |-> "none", units |-> 0, activation |-> "none", dtype |-> NoArg,
     dtype_policy |-> NoPolicy, kernel_dtype |-> "none", input_dtype |-> "none",
     output_dtype |-> "none", after_set |-> FALSE]

\* Constructing a layer and calling it on a tensor of dtype input.
NewLayer(kind, units, activation, dtype, input) ==
    LET pol == LayerPolicy(dtype) IN
    [kind |-> kind, units |-> units, activation |-> activation, dtype |-> dtype,
     dtype_policy |-> pol, kernel_dtype |-> KernelDtype(kind, pol),
     input_dtype |-> input, output_dtype |-> OutputDtype(pol, input),
     after_set |-> policy_set]

\* A statement of the notebook, with the statement executed before it.
MStatement(stmt, form) ==
    [stmt |-> stmt, form |-> form, prev |-> [stmt |-> mlast.stmt, form |-> mlast.form]]

\* The dtype arguments a layer constructor is given.
DtypeArgs == {NoArg, StrArg("float32"), PolicyArg(Policy("float32"))}

InitMp ==
    /\ policy = NoPolicy
    /\ global_policy = Policy("float32")
    /\ policy_set = FALSE
    /\ num_units = 0
    /\ layer = NoLayer
    /\ x = "none"
    /\ outputs = "none"
    /\ mlast = [stmt |-> "import", form |-> "none",
                prev |-> [stmt |-> "none", form |-> "none"]]


\* htf.load_habana_module()
htf_load_habana_module ==
    /\ habana_loaded' = TRUE
    /\ mlast' = MStatement("load_habana_module", "none")
    /\ UNCHANGED <<hw_hpus, hpu_vars, policy, global_policy, policy_set, num_units,
                   layer, x, outputs>>

\* policy = mixed_precision.Policy('mixed_bfloat16')
make_policy ==
    /\ policy' = Policy("mixed_bfloat16")
    /\ mlast' = MStatement("Policy", "str")
    /\ UNCHANGED <<hw_hpus, habana_loaded, hpu_vars, global_policy, policy_set,
                   num_units, layer, x, outputs>>

\* mixed_precision.set_global_policy(arg)
set_global_policy(arg) ==
    /\ arg.form = "policy" => arg.policy # NoPolicy
    /\ global_policy' = get_policy(arg)
    /\ policy_set' = TRUE
    /\ mlast' = MStatement("set_global_policy", arg.form)
    /\ UNCHANGED <<hw_hpus, habana_loaded, hpu_vars, policy, num_units, layer, x,
                   outputs>>

\* mixed_precision.set_global_policy(policy)
set_global_policy_object == set_global_policy(PolicyArg(policy))

\* mixed_precision.set_global_policy('mixed_bfloat16')
set_global_policy_string == set_global_policy(StrArg("mixed_bfloat16"))

\* inputs = keras.Input(shape=(784,)); if device_lib.list_local_devices(): ...
choose_units ==
    /\ num_units' = IF list_local_devices # {} THEN UnitsHpu ELSE UnitsCpu
    /\ x' = "float32"
    /\ mlast' = MStatement("num_units", "none")
    /\ UNCHANGED <<hw_hpus, habana_loaded, hpu_vars, policy, global_policy,
                   policy_set, layer, outputs>>

\* dense1 = layers.Dense(num_units, activation='relu'); x = dense1(inputs)
\* dense2 = layers.Dense(num_units, activation='relu'); x = dense2(x)
dense_hidden(dtype) ==
    /\ num_units # 0
    /\ layer' = NewLayer("Dense", num_units, "relu", dtype, x)
    /\ x' = layer'.output_dtype
    /\ mlast' = MStatement("dense_hidden", dtype.form)
    /\ UNCHANGED <<hw_hpus, habana_loaded, hpu_vars, policy, global_policy,
                   policy_set, num_units, outputs>>

\* outputs = layers.Dense(10, activation='softmax', name='predictions')(x)
dense_softmax(dtype) ==
    /\ x # "none"
    /\ layer' = NewLayer("Dense", UnitsOut, "softmax", dtype, x)
    /\ outputs' = layer'.output_dtype
    /\ mlast' = MStatement("dense_softmax", dtype.form)
    /\ UNCHANGED <<hw_hpus, habana_loaded, hpu_vars, policy, global_policy,
                   policy_set, num_units, x>>

\* x = layers.Dense(10, name='dense_logits')(x)
dense_logits(dtype) ==
    /\ x # "none"
    /\ layer' = NewLayer("Dense", UnitsOut, "linear", dtype, x)
    /\ x' = layer'.output_dtype
    /\ mlast' = MStatement("dense_logits", dtype.form)
    /\ UNCHANGED <<hw_hpus, habana_loaded, hpu_vars, policy, global_policy,
                   policy_set, num_units, outputs>>

\* outputs = layers.Activation('softmax', dtype='float32', name='predictions')(x)
activation_softmax(dtype) ==
    /\ x # "none"
    /\ layer' = NewLayer("Activation", 0, "softmax", dtype, x)
    /\ outputs' = layer'.output_dtype
    /\ mlast' = MStatement("activation_softmax", dtype.form)
    /\ UNCHANGED <<hw_hpus, habana_loaded, hpu_vars, policy, global_policy,
                   policy_set, num_units, x>>

\* outputs = layers.Activation('linear', dtype='float32')(outputs)
activation_linear(dtype) ==
    /\ outputs # "none"
    /\ layer' = NewLayer("Activation", 0, "linear", dtype, outputs)
    /\ outputs' = layer'.output_dtype
    /\ mlast' = MStatement("activation_linear", dtype.form)
    /\ UNCHANGED <<hw_hpus, habana_loaded, hpu_vars, policy, global_policy,
                   policy_set, num_units, x>>

NextMp ==
    \/ htf_load_habana_module /\ UNCHANGED <<train_vars, cast_vars>>
    \/ make_policy /\ UNCHANGED <<train_vars, cast_vars>>
    \/ set_global_policy_object /\ UNCHANGED <<train_vars, cast_vars>>
    \/ set_global_policy_string /\ UNCHANGED <<train_vars, cast_vars>>
    \/ choose_units /\ UNCHANGED <<train_vars, cast_vars>>
    \/ \E dtype \in DtypeArgs : dense_hidden(dtype) /\ UNCHANGED <<train_vars, cast_vars>>
    \/ \E dtype \in DtypeArgs : dense_softmax(dtype) /\ UNCHANGED <<train_vars, cast_vars>>
    \/ \E dtype \in DtypeArgs : dense_logits(dtype) /\ UNCHANGED <<train_vars, cast_vars>>
    \/ \E dtype \in DtypeArgs : activation_softmax(dtype) /\ UNCHANGED <<train_vars, cast_vars>>
    \/ \E dtype \in DtypeArgs : activation_linear(dtype) /\ UNCHANGED <<train_vars, cast_vars>>

-----------------------------------------------------------------------------
(* mixed_precision.ipynb run top to bottom: model, training and evaluation *)

TrainSamples == 60000
TestSamples == 10000
Epochs == 5
ValidationSplitPercent == 20
BatchSize == 8192

Weights == 0..MaxWeight
NoWeights == -1
NoRange == [lo |-> 0, hi |-> 0]

Size(r) == r.hi - r.lo

\* Mutant of SplitAt.
SplitAt_validation_share(n, percent) == (n * percent) \div 100

\* validation_split: the last fraction of the samples is held out for
\* validation, fit trains on the samples before it.
SplitAt(n, percent) == (n * (100 - percent)) \div 100

\* Mutant of FitDone.
FitDone_one_short(e) == e >= Epochs - 1

\* fit stops after the last epoch.
FitDone(e) == e >= Epochs

\* Mutant of Snapshot.
Snapshot_aliased(saved, w) == IF saved = NoWeights THEN saved ELSE w

\* get_weights returns copies: what was saved is not changed by training.
Snapshot(saved, w) == saved

\* The batches of one epoch: the last one may be smaller.
StepsPerEpoch(samples, batch_size) == (samples + batch_size - 1) \div batch_size

Event(ev, k) == [ev |-> ev, k |-> k]

InitTrain ==
    /\ pc = "load_habana_module"
    /\ weights = NoWeights
    /\ untrained = NoWeights
    /\ initial_weights = NoWeights
    /\ restored = FALSE
    /\ n_train = 0
    /\ n_test = 0
    /\ train = NoRange
    /\ val = NoRange
    /\ used_train = NoRange
    /\ used_val = NoRange
    /\ epoch = 0
    /\ fits = 0
    /\ iterations = 0
    /\ setup = <<>>
    /\ run = <<>>

NoTensor == [dtype |-> "none", val |-> 0]

InitCast ==
    /\ tensor = NoTensor
    /\ orig = NoTensor
    /\ applied = 0

Init == InitHpu /\ InitMp /\ InitTrain /\ InitCast

\* A statement of the cells that build the layers, at its place in the notebook.
Cell(label, statement, next) ==
    /\ pc = label
    /\ statement
    /\ pc' = next
    /\ UNCHANGED <<weights, untrained, initial_weights, restored, n_train, n_test,
                   train, val, used_train, used_val, epoch, fits, iterations,
                   setup, run, cast_vars>>

\* model = keras.Model(inputs=inputs, outputs=outputs)
\* The layers' variables were initialised at random when the layers were built.
keras_model ==
    /\ pc = "Model"
    /\ outputs # "none"
    /\ \E w \in Weights : weights' = w /\ untrained' = w
    /\ setup' = Append(setup, "Model")
    /\ pc' = "compile"
    /\ UNCHANGED <<hw_hpus, habana_loaded, hpu_vars, mp_vars, cast_vars,
                   iterations, initial_weights,
                   restored, n_train, n_test, train, val, used_train, used_val,
                   epoch, fits, run>>

\* model.compile(loss=..., optimizer=keras.optimizers.RMSprop(), metrics=['accuracy'])
compile ==
    /\ pc = "compile"
    /\ setup' = Append(setup, "compile")
    /\ pc' = "load_data"
    /\ UNCHANGED <<hw_hpus, habana_loaded, hpu_vars, mp_vars, cast_vars,
                   iterations, weights, untrained,
                   initial_weights, restored, n_train, n_test, train, val,
                   used_train, used_val, epoch, fits, run>>

\* (x_train, y_train), (x_test, y_test) = keras.datasets.mnist.load_data(); reshape
load_data ==
    /\ pc = "load_data"
    /\ n_train' = TrainSamples
    /\ n_test' = TestSamples
    /\ setup' = Append(setup, "load_data")
    /\ pc' = "get_weights"
    /\ UNCHANGED <<hw_hpus, habana_loaded, hpu_vars, mp_vars, cast_vars,
                   iterations, weights, untrained,
                   initial_weights, restored, train, val, used_train, used_val,
                   epoch, fits, run>>

\* initial_weights = model.get_weights()
get_weights ==
    /\ pc = "get_weights"
    /\ initial_weights' = weights
    /\ setup' = Append(setup, "get_weights")
    /\ pc' = "fit"
    /\ UNCHANGED <<hw_hpus, habana_loaded, hpu_vars, mp_vars, cast_vars,
                   iterations, weights, untrained,
                   restored, n_train, n_test, train, val, used_train, used_val,
                   epoch, fits, run>>

\* history = model.fit(x_train, y_train, batch_size=8192, epochs=5,
\*                     validation_split=0.2)       (the call, before epoch 1)
\* The fit cell can be executed again once it has finished.
fit_begin ==
    /\ pc \in {"fit", "done"}
    /\ fits < MaxFits
    /\ fits' = fits + 1
    /\ train' = [lo |-> 0, hi |-> SplitAt(n_train, ValidationSplitPercent)]
    /\ val' = [lo |-> SplitAt(n_train, ValidationSplitPercent), hi |-> n_train]
    /\ used_train' = NoRange
    /\ used_val' = NoRange
    /\ epoch' = 0
    /\ run' = <<Event("fit", 0)>>
    /\ pc' = "epoch_train"
    /\ UNCHANGED <<hw_hpus, habana_loaded, hpu_vars, mp_vars, cast_vars,
                   iterations, weights, untrained,
                   initial_weights, restored, n_train, n_test, setup>>

\* Epoch k/5: one pass over the training samples, which updates the weights.
epoch_train ==
    /\ pc = "epoch_train"
    /\ epoch' = epoch + 1
    /\ \E w \in Weights :
           /\ weights' = w
           /\ initial_weights' = Snapshot(initial_weights, w)
    /\ iterations' = iterations + StepsPerEpoch(Size(train), BatchSize)
    /\ restored' = FALSE
    /\ used_train' = train
    /\ run' = Append(run, Event("epoch", epoch + 1))
    /\ pc' = "epoch_val"
    /\ UNCHANGED <<hw_hpus, habana_loaded, hpu_vars, mp_vars, cast_vars, untrained, n_train,
                   n_test, train, val, used_val, fits, setup>>

\* The validation pass that ends an epoch (val_loss, val_accuracy).
epoch_validate ==
    /\ pc = "epoch_val"
    /\ used_val' = val
    /\ run' = Append(run, Event("val", epoch))
    /\ pc' = IF FitDone(epoch) THEN "evaluate" ELSE "epoch_train"
    /\ UNCHANGED <<hw_hpus, habana_loaded, hpu_vars, mp_vars, cast_vars,
                   iterations, weights, untrained,
                   initial_weights, restored, n_train, n_test, train, val,
                   used_train, epoch, fits, setup>>

\* test_scores = model.evaluate(x_test, y_test, verbose=2)
evaluate ==
    /\ pc = "evaluate"
    /\ run' = Append(run, Event("evaluate", n_test))
    /\ pc' = "print"
    /\ UNCHANGED <<hw_hpus, habana_loaded, hpu_vars, mp_vars, cast_vars,
                   iterations, weights, untrained,
                   initial_weights, restored, n_train, n_test, train, val,
                   used_train, used_val, epoch, fits, setup>>

\* print('Test loss:', test_scores[0]); print('Test accuracy:', test_scores[1])
print_scores ==
    /\ pc = "print"
    /\ run' = Append(run, Event("print", 0))
    /\ pc' = "done"
    /\ UNCHANGED <<hw_hpus, habana_loaded, hpu_vars, mp_vars, cast_vars,
                   iterations, weights, untrained,
                   initial_weights, restored, n_train, n_test, train, val,
                   used_train, used_val, epoch, fits, setup>>

\* model.set_weights(initial_weights): loading the initial weights to train
\* from scratch again.
set_weights ==
    /\ pc \in {"fit", "done"}
    /\ weights' = initial_weights
    /\ restored' = TRUE
    /\ UNCHANGED <<hw_hpus, habana_loaded, hpu_vars, mp_vars, cast_vars,
                   iterations, pc, untrained,
                   initial_weights, n_train, n_test, train, val, used_train,
                   used_val, epoch, fits, setup, run>>

NextTrain ==
    \/ Cell("load_habana_module", htf_load_habana_module, "Policy")
    \/ Cell("Policy", make_policy, "set_global_policy_object")
    \/ Cell("set_global_policy_object", set_global_policy_object,
            "set_global_policy_string")
    \/ Cell("set_global_policy_string", set_global_policy_string, "num_units")
    \/ Cell("num_units", choose_units, "dense1")
    \/ Cell("dense1", dense_hidden(NoArg), "dense2")
    \/ Cell("dense2", dense_hidden(NoArg), "dense_softmax")
    \/ Cell("dense_softmax", dense_softmax(NoArg), "dense_logits")
    \/ Cell("dense_logits", dense_logits(NoArg), "activation_softmax")
    \/ Cell("activation_softmax", activation_softmax(StrArg("float32")),
            "activation_linear")
    \/ Cell("activation_linear", activation_linear(StrArg("float32")), "Model")
    \/ keras_model
    \/ compile
    \/ load_data
    \/ get_weights
    \/ fit_begin
    \/ epoch_train
    \/ epoch_validate
    \/ evaluate
    \/ print_scores
    \/ set_weights

SpecHpu == Init /\ [][NextHpu]_vars

SpecMp == Init /\ [][NextMp]_vars

SpecTrain == Init /\ [][NextTrain]_vars

-----------------------------------------------------------------------------
(* mixed_precision.ipynb: casting the model's output to float32 *)

\* Values are counted in float32 steps; bfloat16 keeps fewer significant bits,
\* so only every Bf16Step-th float32 value is a bfloat16 value.
Bf16Step == 4

Representable(dtype) ==
    IF dtype = "bfloat16"
    THEN {v \in 0..MaxVal : v % Bf16Step = 0}
    ELSE 0..MaxVal

Tensors ==
    {[dtype |-> d, val |-> v] : d \in {"float32", "bfloat16"}, v \in 0..MaxVal}
        \ {[dtype |-> "bfloat16", val |-> v] : v \in (0..MaxVal) \ Representable("bfloat16")}

\* Mutant of Cast.
Cast_rounding(v, dtype) == (v \div Bf16Step) * Bf16Step

\* tf.cast: to bfloat16 the value is rounded to a bfloat16 value; to float32
\* it is kept, every bfloat16 and float32 value being a float32 value.
Cast(v, dtype) ==
    IF dtype = "bfloat16" THEN (v \div Bf16Step) * Bf16Step ELSE v

\* The linear activation is the identity function.
linear(v) == v

\* Calling layers.Activation('linear', dtype=dtype) on a tensor: the layer
\* casts its input to its compute dtype and applies the activation.
ActivationLinear(dtype, input) ==
    LET pol == LayerPolicy(dtype) IN
    [dtype |-> OutputDtype(pol, input.dtype),
     val |-> linear(Cast(input.val, pol.compute_dtype))]

\* The output of the layers before the cast.
make_tensor ==
    /\ tensor = NoTensor
    /\ \E input \in Tensors : tensor' = input /\ orig' = input
    /\ applied' = 0
    /\ UNCHANGED <<hw_hpus, habana_loaded, hpu_vars, mp_vars, train_vars>>

\* outputs = layers.Activation('linear', dtype='float32')(outputs)
linear_float32 ==
    /\ tensor # NoTensor
    /\ applied < MaxApply
    /\ tensor' = ActivationLinear(StrArg("float32"), tensor)
    /\ applied' = applied + 1
    /\ UNCHANGED <<hw_hpus, habana_loaded, hpu_vars, mp_vars, train_vars, orig>>

\* A linear Activation layer with the mixed_bfloat16 policy: its output is a
\* new bfloat16 tensor.
linear_mixed_bfloat16 ==
    /\ tensor # NoTensor
    /\ tensor' = ActivationLinear(StrArg("mixed_bfloat16"), tensor)
    /\ orig' = tensor'
    /\ applied' = 0
    /\ UNCHANGED <<hw_hpus, habana_loaded, hpu_vars, mp_vars, train_vars>>

NextCast ==
    \/ make_tensor
    \/ linear_float32
    \/ linear_mixed_bfloat16

SpecCast == Init /\ [][NextCast]_vars

-----------------------------------------------------------------------------
(* Properties of hpu.ipynb, checked under SpecHpu *)

\* The statements that place a tensor or run an operation, and their operation.
OpStmts == {"constant", "matmul", "op"}

OpOf(stmt) ==
    CASE stmt = "constant" -> "_EagerConst"
      [] stmt = "matmul" -> "MatMul"
      [] stmt = "op" -> "RemoteCall"

\* C1: with CPU:0 and HPU:0 visible, an operation that has a CPU and an HPU
\* implementation and is issued with no device requested is assigned to HPU:0.
C1_DefaultHpuPriority ==
    ( /\ last.stmt \in OpStmts
      /\ blocks_open = 0
      /\ last.requested = NoDevice
      /\ {"CPU", "HPU"} \subseteq OpKernels(OpOf(last.stmt))
      /\ {CPU0, HPU0} \subseteq VisibleDevices )
    => last.device = HPU0

C1_Witness ==
    /\ last.stmt = "matmul"
    /\ blocks_open = 0
    /\ last.requested = NoDevice
    /\ VisibleDevices = {CPU0, HPU0}
    /\ last.device = HPU0
    /\ tensors["c"] = HPU0

C3_ScopeEndsWithBlock ==
    (last.stmt = "matmul" /\ blocks_open = 0)
    => /\ last.requested = NoDevice
       /\ last.device = IF HPU0 \in VisibleDevices THEN HPU0 ELSE CPU0
       /\ last.copied = {t \in {"a", "b"} : tensors[t] # last.device}
       /\ tensors["a"] = last.operands["a"]
       /\ tensors["b"] = last.operands["b"]

C3_Witness ==
    /\ last.stmt = "matmul"
    /\ block_exited
    /\ blocks_open = 0
    /\ tensors["a"] = CPU0
    /\ tensors["b"] = CPU0
    /\ last.device = HPU0
    /\ last.copied = {"a", "b"}

C11_EveryPlacementPrinted ==
    (log_device_placement /\ last.stmt \in OpStmts)
    => \E l \in printed : l.device = last.device

\* C12: after load_habana_module() the printed count is the number of HPUs of
\* the machine, and once a non-zero count was printed an operation with CPU
\* and HPU implementations and no requested device is placed on HPU:0.
C12_DeviceEnumeration ==
    /\ (last.stmt = "print_num_hpus" /\ habana_loaded)
       => num_hpus_available = hw_hpus
    /\ ( /\ num_hpus_available > 0
         /\ last.stmt \in OpStmts
         /\ blocks_open = 0
         /\ {"CPU", "HPU"} \subseteq OpKernels(OpOf(last.stmt)) )
       => last.device = HPU0

C12_Witness ==
    /\ habana_loaded
    /\ num_hpus_available = hw_hpus
    /\ num_hpus_available > 0
    /\ last.stmt = "constant"
    /\ blocks_open = 0
    /\ last.device = HPU0

-----------------------------------------------------------------------------
(* Properties of mixed_precision.ipynb, checked under SpecMp *)

MixedBfloat16 ==
    [name |-> "mixed_bfloat16", compute_dtype |-> "bfloat16", variable_dtype |-> "float32"]

Float32 ==
    [name |-> "float32", compute_dtype |-> "float32", variable_dtype |-> "float32"]

\* C4 as stated: num_units is 256 when an HPU is used and 64 on a CPU only.
C4_UnitsByDevice ==
    mlast.stmt = "num_units"
    => num_units = IF list_physical_devices("HPU") # {} THEN UnitsHpu ELSE UnitsCpu

\* C5: Policy('mixed_bfloat16') has compute dtype bfloat16 and variable dtype
\* float32, and a layer with that policy computes in the one and keeps its
\* variables in the other.
C5_PolicyDtypes ==
    /\ policy # NoPolicy
       => (policy.compute_dtype = "bfloat16" /\ policy.variable_dtype = "float32")
    /\ (layer # NoLayer /\ policy # NoPolicy /\ layer.dtype_policy.name = policy.name)
       => /\ layer.output_dtype = policy.compute_dtype
          /\ layer.kind = "Dense" => layer.kernel_dtype = policy.variable_dtype

C5_Witness ==
    /\ policy # NoPolicy
    /\ mlast.stmt = "dense_hidden"
    /\ layer.dtype_policy = policy
    /\ layer.output_dtype = "bfloat16"
    /\ layer.kernel_dtype = "float32"

\* C6: a layer created without a dtype argument after set_global_policy
\* ('mixed_bfloat16') has been executed has the dtype policy mixed_bfloat16.
C6_GlobalPolicyApplies ==
    (layer # NoLayer /\ layer.after_set /\ layer.dtype.form = "none")
    => layer.dtype_policy = MixedBfloat16

C6_Witness ==
    /\ mlast.stmt = "dense_hidden"
    /\ layer.after_set
    /\ layer.dtype = NoArg
    /\ layer.units = UnitsHpu
    /\ layer.dtype_policy.name = "mixed_bfloat16"

\* C7: a layer given dtype='float32' has the float32 policy whatever the global
\* policy is, so its output, and the model output it is assigned to, is float32.
C7_DtypeOverride ==
    (layer # NoLayer /\ layer.dtype.form # "none")
    => /\ layer.dtype_policy = Float32
       /\ layer.output_dtype = "float32"
       /\ mlast.stmt \in {"activation_softmax", "activation_linear", "dense_softmax"}
          => outputs = "float32"

C7_Witness ==
    /\ global_policy.name = "mixed_bfloat16"
    /\ mlast.stmt = "activation_softmax"
    /\ layer.kind = "Activation"
    /\ layer.dtype = StrArg("float32")
    /\ layer.input_dtype = "bfloat16"
    /\ outputs = "float32"

\* C8: under the global mixed_bfloat16 policy a layer created without a dtype
\* argument outputs bfloat16 and keeps float32 variables.
C8_MixedLayerDtypes ==
    ( /\ layer # NoLayer
      /\ global_policy.name = "mixed_bfloat16"
      /\ layer.after_set
      /\ layer.dtype.form = "none" )
    => /\ layer.output_dtype = "bfloat16"
       /\ layer.kind = "Dense" => layer.kernel_dtype = "float32"
       /\ mlast.stmt \in {"dense_hidden", "dense_logits"} => x = "bfloat16"
       /\ mlast.stmt \in {"dense_softmax", "activation_softmax", "activation_linear"}
          => outputs = "bfloat16"

C8_Witness ==
    /\ global_policy.name = "mixed_bfloat16"
    /\ mlast.stmt = "dense_softmax"
    /\ layer.dtype = NoArg
    /\ layer.units = UnitsOut
    /\ x = "bfloat16"
    /\ layer.kernel_dtype = "float32"
    /\ outputs = "bfloat16"

\* C9: set_global_policy leaves the same global policy whether it is given the
\* string 'mixed_bfloat16' or the Policy object, and a call that follows
\* another call leaves the global policy unchanged.
C9_SetGlobalPolicyEquivalent ==
    [][ mlast'.stmt = "set_global_policy"
        => /\ global_policy' = MixedBfloat16
           /\ mlast.stmt = "set_global_policy" => global_policy' = global_policy ]_vars

C9_Witness ==
    /\ mlast.stmt = "set_global_policy"
    /\ mlast.form = "str"
    /\ mlast.prev = [stmt |-> "set_global_policy", form |-> "policy"]
    /\ global_policy = policy

-----------------------------------------------------------------------------
(* Properties of the training run, checked under SpecTrain *)

\* A fit call has split the samples.
Fitting == pc \in {"epoch_train", "epoch_val", "evaluate", "print", "done"}

\* C13: fit trains on 48000 of the 60000 samples and validates on the other
\* 12000; the two sets are disjoint, together they are all the samples, and
\* every epoch of the call goes through the same two sets.
C13_TrainingSplit ==
    Fitting =>
        /\ Size(train) = 48000
        /\ Size(val) = 12000
        /\ train.lo = 0 /\ train.hi = val.lo /\ val.hi = n_train
        /\ n_train = 60000
        /\ (used_train # NoRange => used_train = train)
        /\ (used_val # NoRange => used_val = val)
        /\ (epoch >= 1 => used_train # NoRange)
        /\ (pc \in {"evaluate", "print", "done"} => epoch = 5 /\ used_val # NoRange)

C13_Witness ==
    /\ pc = "evaluate"
    /\ epoch = 5
    /\ used_train = [lo |-> 0, hi |-> 48000]
    /\ used_val = [lo |-> 48000, hi |-> 60000]

-----------------------------------------------------------------------------
(* Properties of the float32 cast, checked under SpecCast *)

\* C14: Activation('linear', dtype='float32') keeps the values and yields a
\* float32 tensor: a float32 output is unchanged however often the layer is
\* applied, and a bfloat16 output changes only its dtype.
C14_LinearCastIdentity ==
    applied >= 1 => tensor = [dtype |-> "float32", val |-> orig.val]

C14_Witness ==
    /\ applied = 2
    /\ orig.dtype = "bfloat16"
    /\ orig.val = Bf16Step
    /\ tensor = [dtype |-> "float32", val |-> Bf16Step]

-----------------------------------------------------------------------------
(* Properties of the saved initial weights, checked under SpecTrain *)

-----------------------------------------------------------------------------
(* Properties of the order of the training workflow, checked under SpecTrain *)

IsPrefix(s, of) == Len(s) <= Len(of) /\ s = SubSeq(of, 1, Len(s))

\* Epoch 1/n to n/n, each followed by its validation pass.
EpochEvents(n) ==
    [i \in 1..(2 * n) |->
        IF i % 2 = 1 THEN Event("epoch", (i + 1) \div 2) ELSE Event("val", i \div 2)]

FixedSetup == <<"Model", "compile", "load_data", "get_weights">>

FixedRun ==
    <<Event("fit", 0)>> \o EpochEvents(5)
        \o <<Event("evaluate", 10000), Event("print", 0)>>

\* C16: the model is constructed and compiled before the initial weights are
\* read, the weights are read before fit starts, fit runs epochs 1/5 to 5/5,
\* each followed by one validation pass, and evaluate on the 10000 test samples
\* runs once, after the fifth epoch and before the scores are printed.
C16_WorkflowOrder ==
    /\ IsPrefix(setup, FixedSetup)
    /\ (initial_weights # NoWeights <=> setup = FixedSetup)
    /\ (run # <<>> => setup = FixedSetup)
    /\ IsPrefix(run, FixedRun)
    /\ (pc = "done" => run = FixedRun)
    /\ (pc = "print" => run = SubSeq(FixedRun, 1, Len(FixedRun) - 1))

C16_Witness ==
    /\ pc = "done"
    /\ fits = 1
    /\ setup = FixedSetup
    /\ run = FixedRun

====
